---- MODULE Spec2Model ----
(***************************************************************************)
(* A model of the stringent crate (src/src/lib.rs): the verify() adapter   *)
(* over the io::Result values of std::process, the CommandStatusError and  *)
(* CommandError types, their Display and Error impls, and the From         *)
(* conversion between them.                                                *)
(*                                                                         *)
(* The library is a set of pure functions.  The state machine is a caller  *)
(* that repeatedly takes the result of one host operation (status/wait,    *)
(* try_wait, spawn, output/wait_with_output), calls verify() on it, and    *)
(* may then convert the error with From and render it with Display and     *)
(* source().  An ExitStatus is modelled by what the code reads of it: the  *)
(* results of success(), code() and (on unix) signal().                    *)
(***************************************************************************)
EXTENDS Integers, Sequences, FiniteSets, TLC

VARIABLES
    unix,       \* cfg(unix): fixed when the crate is built
    shape,      \* which impl of Verify the last call used ("none" before any)
    raw,        \* the io::Result the last verify() was called on
    result,     \* what that verify() returned
    calls,      \* the functions that verify() call invoked, in order
    converted,  \* Option<CommandError>: CommandError::from(result's error)
    shown       \* Option: the last rendering (Display + source) of the error

vars == <<unix, shape, raw, result, calls, converted, shown>>

---------------------------------------------------------------------------
(* Bounds of the model *)

\* longest captured stdout / stderr byte sequence
MaxLen == 2

---------------------------------------------------------------------------
(* Values of the standard library the code handles *)

\* Option<T>
None == [some |-> FALSE]
Some(v) == [some |-> TRUE, val |-> v]

\* Result<T, E>
Ok(v) == [ok |-> TRUE, val |-> v]
Err(e) == [ok |-> FALSE, err |-> e]

\* i32 (the payload of ExitCode and Signal)
I32Max == 2147483647
I32Min == (-I32Max) - 1

\* the exit code of a panicking Rust process and SIGXCPU, as in the tests
PANIC == 101
XCPU == 24

\* exit codes a status may carry: both ends of i32, negatives, zero
Codes == {I32Min, -1, 0, 1, PANIC, I32Max}

\* signal numbers a status may carry
Signals == {9, XCPU}

\* io::Error values (a kind and the message Display writes)
IoErrors ==
    { [kind |-> "NotFound", msg |-> "file not found"],
      [kind |-> "PermissionDenied", msg |-> "permission denied"] }

OptionOf(S) == {None} \cup {Some(v) : v \in S}

\* std::process::ExitStatus, by the accessors the code calls
ExitStatuses ==
    [success : BOOLEAN, code : OptionOf(Codes), signal : OptionOf(Signals)]

\* Vec<u8> up to MaxLen bytes
Bytes == {0, 255}
ByteSeqs == UNION {[1..n -> Bytes] : n \in 0..MaxLen}

\* std::process::Output
Outputs == [status : ExitStatuses, stdout : ByteSeqs, stderr : ByteSeqs]

\* std::process::Child, by its process id
Children == {[pid |-> 1], [pid |-> 2]}

\* io::Result<T>
IoResultOf(S) == {Err(e) : e \in IoErrors} \cup {Ok(v) : v \in S}

---------------------------------------------------------------------------
(* enum CommandStatusError, struct Std, struct CommandError *)

SpawnFailed(io) == [kind |-> "SpawnFailed", io |-> io]
ExitCode(code) == [kind |-> "ExitCode", code |-> code]
Signal(signal) == [kind |-> "Signal", signal |-> signal]

Std(stdout, stderr) == [stdout |-> stdout, stderr |-> stderr]

CommandError(err, output) == [err |-> err, output |-> output]

---------------------------------------------------------------------------
(* The classifier: signal_of, option_status, stringent_result *)

\* a signal_of that never reports a signal, on any platform
signal_of_Unsupported(status) == None

\* fn signal_of: status.signal() under cfg(unix), None otherwise
signal_of(status) == IF unix THEN status.signal ELSE None

\* impl StringentResult for ExitStatus
option_status_ExitStatus(self) == Some(self)

\* an option_status that loses the polled status
option_status_Option_Lost(self) == None

\* impl StringentResult for Option<ExitStatus>
option_status_Option(self) == self

\* the dispatch of self.option_status() on the type of Self
option_status(self, ty) ==
    IF ty = "ExitStatus" THEN option_status_ExitStatus(self)
    ELSE option_status_Option(self)

\* a stringent_result that looks at the signal before the exit code
stringent_result_SignalFirst(self, ty) ==
    LET os == option_status(self, ty) IN
    IF ~os.some THEN Ok(self)
    ELSE IF os.val.success THEN Ok(self)
    ELSE IF signal_of(os.val).some THEN Err(Signal(signal_of(os.val)))
    ELSE IF os.val.code.some THEN Err(ExitCode(os.val.code.val))
    ELSE Err(Signal(None))

\* a stringent_result that takes code() == Some(0) for success()
stringent_result_CodeZero(self, ty) ==
    LET os == option_status(self, ty) IN
    IF ~os.some THEN Ok(self)
    ELSE IF os.val.code = Some(0) THEN Ok(self)
    ELSE IF os.val.code.some THEN Err(ExitCode(os.val.code.val))
    ELSE Err(Signal(signal_of(os.val)))

\* a stringent_result that reports ExitCode for nonzero codes only
stringent_result_NonzeroOnly(self, ty) ==
    LET os == option_status(self, ty) IN
    IF ~os.some THEN Ok(self)
    ELSE IF os.val.success THEN Ok(self)
    ELSE IF os.val.code.some /\ os.val.code.val # 0
         THEN Err(ExitCode(os.val.code.val))
    ELSE Err(Signal(signal_of(os.val)))

\* fn stringent_result (the provided method of trait StringentResult)
stringent_result(self, ty) ==
    LET os == option_status(self, ty) IN
    IF ~os.some THEN Ok(self)
    ELSE IF os.val.success THEN Ok(self)
    ELSE IF os.val.code.some THEN Err(ExitCode(os.val.code.val))
    ELSE Err(Signal(signal_of(os.val)))

---------------------------------------------------------------------------
(* The four impls of Verify.  Each returns the value verify() returns      *)
(* (ret) and the functions it called on the way (called).                  *)

Returned(ret, called) == [ret |-> ret, called |-> called]

\* impl Verify<ExitStatus, CommandStatusError>
verify_ExitStatus(self) ==
    IF ~self.ok THEN Returned(Err(SpawnFailed(self.err)), <<>>)
    ELSE Returned(stringent_result(self.val, "ExitStatus"),
                  <<"stringent_result">>)

\* a verify that swallows the io::Error of try_wait as "still running"
verify_OptionExitStatus_Swallow(self) ==
    IF ~self.ok THEN Returned(Ok(None), <<>>)
    ELSE Returned(stringent_result(self.val, "Option"),
                  <<"stringent_result">>)

\* impl Verify<Option<ExitStatus>, CommandStatusError>
verify_OptionExitStatus(self) ==
    IF ~self.ok THEN Returned(Err(SpawnFailed(self.err)), <<>>)
    ELSE Returned(stringent_result(self.val, "Option"),
                  <<"stringent_result">>)

\* impl Verify<Child, CommandStatusError>
verify_Child(self) ==
    IF ~self.ok THEN Returned(Err(SpawnFailed(self.err)), <<>>)
    ELSE Returned(Ok(self.val), <<>>)

\* a verify that stores stderr as stdout and stdout as stderr
verify_Output_Swapped(self) ==
    IF ~self.ok
    THEN Returned(Err(CommandError(SpawnFailed(self.err), None)), <<>>)
    ELSE LET output == self.val
             r == stringent_result(output.status, "ExitStatus") IN
         IF ~r.ok
         THEN Returned(Err(CommandError(r.err,
                                        Some(Std(output.stderr, output.stdout)))),
                       <<"stringent_result">>)
         ELSE Returned(Ok(output), <<"stringent_result">>)

\* a verify that attaches empty captured output to a spawn failure
verify_Output_EmptyStd(self) ==
    IF ~self.ok
    THEN Returned(Err(CommandError(SpawnFailed(self.err),
                                   Some(Std(<<>>, <<>>)))), <<>>)
    ELSE LET output == self.val
             r == stringent_result(output.status, "ExitStatus") IN
         IF ~r.ok
         THEN Returned(Err(CommandError(r.err,
                                        Some(Std(output.stdout, output.stderr)))),
                       <<"stringent_result">>)
         ELSE Returned(Ok(output), <<"stringent_result">>)

\* impl Verify<Output, CommandError>
verify_Output(self) ==
    IF ~self.ok
    THEN Returned(Err(CommandError(SpawnFailed(self.err), None)), <<>>)
    ELSE LET output == self.val
             r == stringent_result(output.status, "ExitStatus") IN
         IF ~r.ok
         THEN Returned(Err(CommandError(r.err,
                                        Some(Std(output.stdout, output.stderr)))),
                       <<"stringent_result">>)
         ELSE Returned(Ok(output), <<"stringent_result">>)

\* a From that attaches empty captured output
from_CommandStatusError_EmptyStd(status_error) ==
    CommandError(status_error, Some(Std(<<>>, <<>>)))

\* impl From<CommandStatusError> for CommandError
from_CommandStatusError(status_error) == CommandError(status_error, None)

---------------------------------------------------------------------------
(* Display and Error::source *)

\* the decimal digit d as text
Digit(d) == SubSeq("0123456789", d + 1, d + 1)

RECURSIVE FmtNat(_)
FmtNat(n) == IF n < 10 THEN Digit(n) ELSE FmtNat(n \div 10) \o Digit(n % 10)

\* "{}" of an i32: decimal digits, with a leading "-" below zero.  The last
\* digit of a negative n is split off first, so that i32::MIN is never negated.
FmtI32(n) ==
    IF n >= 0 THEN FmtNat(n)
    ELSE LET last == (10 - (n % 10)) % 10
             rest == (n + last) \div 10
         IN  "-" \o (IF rest = 0 THEN "" ELSE FmtNat(-rest)) \o Digit(last)

\* "{}" of an io::Error built from a kind and a message
fmt_io_Error(io) == io.msg

\* a Display that words an exit code as a signal
fmt_CommandStatusError_Mixed(self) ==
    CASE self.kind = "SpawnFailed" -> "Spawn failed: " \o fmt_io_Error(self.io)
      [] self.kind = "ExitCode" -> "Terminated by signal " \o FmtI32(self.code)
      [] self.kind = "Signal" ->
            IF self.signal.some
            THEN "Terminated by signal " \o FmtI32(self.signal.val)
            ELSE "Terminated"

\* impl fmt::Display for CommandStatusError
fmt_CommandStatusError(self) ==
    CASE self.kind = "SpawnFailed" -> "Spawn failed: " \o fmt_io_Error(self.io)
      [] self.kind = "ExitCode" -> "Exit code " \o FmtI32(self.code)
      [] self.kind = "Signal" ->
            IF self.signal.some
            THEN "Terminated by signal " \o FmtI32(self.signal.val)
            ELSE "Terminated"

\* impl Error for CommandStatusError
source_CommandStatusError(self) ==
    IF self.kind = "SpawnFailed" THEN Some(self.io) ELSE None

\* impl fmt::Display for CommandError
fmt_CommandError(self) == fmt_CommandStatusError(self.err)

\* impl Error for CommandError
source_CommandError(self) == source_CommandStatusError(self.err)

---------------------------------------------------------------------------
(* The caller: one command at a time.  It verifies the result of one host   *)
(* operation, may convert and render the error, and returns.               *)

\* the CommandError the caller holds, if any: verify()'s on the captured-output
\* shape, or the one From made
HeldCommandError ==
    IF converted.some THEN converted
    ELSE IF shape = "Output" /\ ~result.ok THEN Some(result.err)
    ELSE None

\* the CommandStatusError the caller holds, if any (From consumes it)
HeldStatusError ==
    IF shape \in {"ExitStatus", "OptionExitStatus", "Child"}
       /\ ~result.ok /\ ~converted.some
    THEN Some(result.err)
    ELSE None

Init ==
    /\ unix \in BOOLEAN
    /\ shape = "none"
    /\ raw = None
    /\ result = None
    /\ calls = <<>>
    /\ converted = None
    /\ shown = None

Called(ty, self, v) ==
    /\ shape' = ty
    /\ raw' = self
    /\ result' = v.ret
    /\ calls' = v.called
    /\ converted' = None
    /\ shown' = None
    /\ UNCHANGED unix

\* cmd.status().verify(), child.wait().verify()
VerifyExitStatus ==
    /\ shape = "none"
    /\ \E self \in IoResultOf(ExitStatuses) :
          Called("ExitStatus", self, verify_ExitStatus(self))

\* child.try_wait().verify()
VerifyOptionExitStatus ==
    /\ shape = "none"
    /\ \E self \in IoResultOf(OptionOf(ExitStatuses)) :
          Called("OptionExitStatus", self, verify_OptionExitStatus(self))

\* cmd.spawn().verify()
VerifyChild ==
    /\ shape = "none"
    /\ \E self \in IoResultOf(Children) :
          Called("Child", self, verify_Child(self))

\* cmd.output().verify(), child.wait_with_output().verify()
VerifyOutput ==
    /\ shape = "none"
    /\ \E self \in IoResultOf(Outputs) :
          Called("Output", self, verify_Output(self))

\* the "?" of a function returning Result<_, CommandError>, on a
\* Result<_, CommandStatusError>
ConvertError ==
    /\ HeldStatusError.some
    /\ converted' = Some(from_CommandStatusError(HeldStatusError.val))
    /\ shown' = None
    /\ UNCHANGED <<unix, shape, raw, result, calls>>

Shown(ty, msg, source) == Some([of |-> ty, msg |-> msg, source |-> source])

\* format!("{}", e) and e.source() of a CommandStatusError
DisplayStatusError ==
    /\ HeldStatusError.some
    /\ shown' = Shown("CommandStatusError",
                      fmt_CommandStatusError(HeldStatusError.val),
                      source_CommandStatusError(HeldStatusError.val))
    /\ UNCHANGED <<unix, shape, raw, result, calls, converted>>

\* format!("{}", e) and e.source() of a CommandError
DisplayCommandError ==
    /\ HeldCommandError.some
    /\ shown' = Shown("CommandError",
                      fmt_CommandError(HeldCommandError.val),
                      source_CommandError(HeldCommandError.val))
    /\ UNCHANGED <<unix, shape, raw, result, calls, converted>>

\* the caller is done with the result and goes on to its next command
Return ==
    /\ shape # "none"
    /\ shape' = "none"
    /\ raw' = None
    /\ result' = None
    /\ calls' = <<>>
    /\ converted' = None
    /\ shown' = None
    /\ UNCHANGED unix

Next ==
    \/ VerifyExitStatus
    \/ VerifyOptionExitStatus
    \/ VerifyChild
    \/ VerifyOutput
    \/ ConvertError
    \/ DisplayStatusError
    \/ DisplayCommandError
    \/ Return

Spec == Init /\ [][Next]_vars

---------------------------------------------------------------------------
(* What the properties below read off a state *)

\* the last verify() was given an exit status (bare, polled or inside an Output)
HasStatus ==
    \/ shape = "ExitStatus" /\ raw.ok
    \/ shape = "OptionExitStatus" /\ raw.ok /\ raw.val.some
    \/ shape = "Output" /\ raw.ok

\* that exit status
GivenStatus ==
    CASE shape = "ExitStatus" -> raw.val
      [] shape = "OptionExitStatus" -> raw.val.val
      [] shape = "Output" -> raw.val.status

\* the last verify() was given a bare or a polled exit status
HasBareStatus == shape \in {"ExitStatus", "OptionExitStatus"} /\ HasStatus

\* the CommandStatusError of a failed verify()
ResultError == IF shape = "Output" THEN result.err.err ELSE result.err

\* the CommandStatusError whose rendering is in shown
ShownError ==
    IF shown.val.of = "CommandError" THEN HeldCommandError.val.err
    ELSE HeldStatusError.val

\* every CommandStatusError over the model's codes, signals and io errors
CommandStatusErrors ==
    {SpawnFailed(io) : io \in IoErrors}
        \cup {ExitCode(c) : c \in Codes}
        \cup {Signal(x) : x \in OptionOf(Signals)}

HasPrefix(s, p) == Len(s) >= Len(p) /\ SubSeq(s, 1, Len(p)) = p
After(s, p) == SubSeq(s, Len(p) + 1, Len(s))

\* reading a decimal numeral back, independently of FmtI32
DigitChars == <<"0", "1", "2", "3", "4", "5", "6", "7", "8", "9">>
IsDigit(c) == \E d \in 1..10 : DigitChars[d] = c
DigitValue(c) == (CHOOSE d \in 1..10 : DigitChars[d] = c) - 1

RECURSIVE ParseDigits(_, _, _)
ParseDigits(s, acc, sign) ==
    IF Len(s) = 0 THEN acc
    ELSE ParseDigits(SubSeq(s, 2, Len(s)),
                     acc * 10 + sign * DigitValue(SubSeq(s, 1, 1)), sign)

IsNumeral(s) ==
    LET digits == IF HasPrefix(s, "-") THEN After(s, "-") ELSE s IN
    /\ Len(digits) > 0
    /\ \A i \in 1..Len(digits) : IsDigit(SubSeq(digits, i, i))
    /\ Len(digits) > 1 => SubSeq(digits, 1, 1) # "0"

ParseI32(s) ==
    IF HasPrefix(s, "-") THEN ParseDigits(After(s, "-"), 0, -1)
    ELSE ParseDigits(s, 0, 1)

\* the message m has no line break in it
OneLine(m) == \A i \in 1..Len(m) : SubSeq(m, i, i) # "\n"

\* the message m names the number n after the words p
Names(m, p, n) ==
    /\ HasPrefix(m, p)
    /\ IsNumeral(After(m, p))
    /\ ParseI32(After(m, p)) = n

---------------------------------------------------------------------------
(* The properties *)

\* C1: a failed exit status that carries a numeric code c (any i32, negative
\* ones too) makes verify() on Ok(status) and on Ok(Some(status)) return
\* Err(ExitCode(c)) with that very c, whatever its signal field holds.
C1_ExitCodeExact ==
    (HasBareStatus /\ ~GivenStatus.success /\ GivenStatus.code.some)
        => result = Err(ExitCode(GivenStatus.code.val))

\* C1 happens: a polled failed status with code i32::MIN and a signal field
C1_Witness ==
    /\ shape = "OptionExitStatus"
    /\ raw = Ok(Some([success |-> FALSE, code |-> Some(I32Min),
                      signal |-> Some(XCPU)]))
    /\ result = Err(ExitCode(I32Min))

\* C2: a failed exit status without a numeric code makes verify() return
\* Err(Signal(x)), never Ok and never ExitCode; x is the status's signal number
\* where the platform reports signals and None where it does not.
C2_SignalWhenNoCode ==
    (HasStatus /\ ~GivenStatus.success /\ ~GivenStatus.code.some)
        => /\ ~result.ok
           /\ ResultError.kind = "Signal"
           /\ unix => ResultError.signal = GivenStatus.signal
           /\ ~unix => ResultError.signal = None

\* C2 happens: on unix, a status killed by SIGXCPU
C2_Witness ==
    /\ unix
    /\ shape = "ExitStatus"
    /\ raw = Ok([success |-> FALSE, code |-> None, signal |-> Some(XCPU)])
    /\ result = Err(Signal(Some(XCPU)))

\* C3: on the success path verify() is the identity: a status whose success
\* flag is true comes back as it was given, whatever its code and signal
\* fields, and a captured output with such a status comes back with the same
\* status, stdout and stderr.
C3_SuccessIdentity ==
    /\ (HasBareStatus /\ GivenStatus.success) => result = raw
    /\ (shape = "Output" /\ HasStatus /\ GivenStatus.success)
          => /\ result.ok
             /\ result.val.status = raw.val.status
             /\ result.val.stdout = raw.val.stdout
             /\ result.val.stderr = raw.val.stderr

\* C3 happens: a successful output whose status has a nonzero code field
C3_Witness ==
    /\ shape = "Output"
    /\ raw.ok
    /\ raw.val.status = [success |-> TRUE, code |-> Some(1), signal |-> Some(9)]
    /\ raw.val.stdout = <<0, 255>>
    /\ raw.val.stderr = <<>>
    /\ result = raw

\* C4: the Option wrapping of try_wait is transparent: Ok(None) comes back
\* as Ok(None); Ok(Some(X)) comes back as Ok(Some(X)) exactly when Ok(X) comes
\* back as Ok(X), and otherwise both give the same error.
C4_SentinelTransparent ==
    /\ (shape = "OptionExitStatus" /\ raw = Ok(None)) => result = Ok(None)
    /\ (shape = "OptionExitStatus" /\ HasStatus)
          => LET X == raw.val.val
                 direct == verify_ExitStatus(Ok(X)).ret
             IN  /\ result.ok <=> direct.ok
                 /\ direct.ok => (direct = Ok(X) /\ result = Ok(Some(X)))
                 /\ ~direct.ok => result = direct
    /\ (shape = "ExitStatus" /\ HasStatus)
          => LET X == raw.val
                 wrapped == verify_OptionExitStatus(Ok(Some(X))).ret
             IN  /\ result.ok <=> wrapped.ok
                 /\ result.ok => (result = Ok(X) /\ wrapped = Ok(Some(X)))
                 /\ ~result.ok => wrapped = result

\* C4 happens: a polled status that was killed by a signal
C4_Witness ==
    /\ shape = "OptionExitStatus"
    /\ HasStatus
    /\ ~GivenStatus.success
    /\ ~GivenStatus.code.some
    /\ ~result.ok
    /\ result = verify_ExitStatus(Ok(raw.val.val)).ret

\* C5: a captured output whose status failed makes verify() return a
\* CommandError whose err is the classification of that status alone and whose
\* stdout and stderr are the captured ones, byte for byte and not swapped; an
\* empty capture is carried as a present empty sequence.
C5_FailedOutputKeepsBytes ==
    (shape = "Output" /\ HasStatus /\ ~GivenStatus.success)
        => /\ ~result.ok
           /\ Err(result.err.err) = verify_ExitStatus(Ok(raw.val.status)).ret
           /\ result.err.output.some
           /\ result.err.output.val.stdout = raw.val.stdout
           /\ result.err.output.val.stderr = raw.val.stderr
           /\ Len(result.err.output.val.stdout) = Len(raw.val.stdout)
           /\ Len(result.err.output.val.stderr) = Len(raw.val.stderr)

\* C5 happens: exit code 1, nothing on stdout, bytes on stderr
C5_Witness ==
    /\ shape = "Output"
    /\ raw.ok
    /\ raw.val.status = [success |-> FALSE, code |-> Some(1), signal |-> None]
    /\ raw.val.stdout = <<>>
    /\ raw.val.stderr = <<255, 0>>
    /\ result = Err(CommandError(ExitCode(1), Some(Std(<<>>, <<255, 0>>))))

\* C6, as stated: a spawn error on the captured-output shape gives a
\* CommandError that carries stdout and stderr as empty sequences, not as an
\* absent value.
C6_SpawnErrorCarriesEmptyBytes ==
    (shape = "Output" /\ ~raw.ok)
        => /\ ~result.ok
           /\ result.err.output.some
           /\ result.err.output.val.stdout = <<>>
           /\ result.err.output.val.stderr = <<>>

\* C6, amended: a spawn error on the captured-output shape gives a
\* CommandError whose output is absent (None): it carries no stdout and no
\* stderr at all, not even empty ones.
C6_SpawnErrorCarriesNoOutput ==
    (shape = "Output" /\ ~raw.ok)
        => /\ ~result.ok
           /\ result.err.err = SpawnFailed(raw.err)
           /\ result.err.output = None

\* C6 happens: output() could not find the program
C6_Witness ==
    /\ shape = "Output"
    /\ raw = Err([kind |-> "NotFound", msg |-> "file not found"])
    /\ ~result.ok
    /\ ~result.err.output.some

\* C7: on each shape verify(Err(io_err)) returns SpawnFailed with that same
\* io_err and classifies nothing; on the process-handle shape verify(Ok(child))
\* returns Ok(child), so that shape fails with SpawnFailed only.
C7_SpawnFailedPassesIoError ==
    /\ (shape # "none" /\ ~raw.ok)
          => /\ ~result.ok
             /\ ResultError = SpawnFailed(raw.err)
             /\ calls = <<>>
    /\ (shape = "Child" /\ raw.ok) => (result = Ok(raw.val) /\ calls = <<>>)
    /\ (shape = "Child" /\ ~result.ok) => result.err.kind = "SpawnFailed"

\* C7 happens: try_wait() failed with an io::Error
C7_Witness ==
    /\ shape = "OptionExitStatus"
    /\ raw = Err([kind |-> "PermissionDenied", msg |-> "permission denied"])
    /\ result = Err(SpawnFailed(raw.err))
    /\ calls = <<>>

\* C8: every error renders a one-line message that tells the three kinds apart:
\* SpawnFailed names the io error, ExitCode(c) names c, Signal(Some(s)) names s,
\* Signal(None) reads "Terminated"; errors of different kinds never render the
\* same message; source() is the io error for SpawnFailed and nothing
\* otherwise; a CommandError renders and sources as its err field does,
\* whatever its output field holds.
C8_DisplayTellsKindsApart ==
    shown.some
        => LET e == ShownError
               m == shown.val.msg
           IN  /\ OneLine(m)
               /\ e.kind = "SpawnFailed"
                     => /\ m = "Spawn failed: " \o e.io.msg
                        /\ shown.val.source = Some(e.io)
               /\ e.kind = "ExitCode"
                     => /\ Names(m, "Exit code ", e.code)
                        /\ shown.val.source = None
               /\ (e.kind = "Signal" /\ e.signal.some)
                     => /\ Names(m, "Terminated by signal ", e.signal.val)
                        /\ shown.val.source = None
               /\ (e.kind = "Signal" /\ ~e.signal.some)
                     => /\ m = "Terminated"
                        /\ shown.val.source = None
               /\ \A o \in CommandStatusErrors :
                     o.kind # e.kind
                         => /\ fmt_CommandStatusError(o) # m
                            /\ fmt_CommandError(CommandError(o, None)) # m
               /\ shown.val.of = "CommandError"
                     => /\ m = fmt_CommandStatusError(e)
                        /\ shown.val.source = source_CommandStatusError(e)

\* C8 happens: a CommandError with captured output and exit code i32::MIN
C8_Witness ==
    /\ shown.some
    /\ shown.val.of = "CommandError"
    /\ shape = "Output"
    /\ ~result.ok
    /\ result.err.err = ExitCode(I32Min)
    /\ result.err.output = Some(Std(<<0>>, <<255>>))
    /\ shown.val.msg = "Exit code -2147483648"
    /\ shown.val.source = None

\* C9, as stated: with the success flag and the code as independent fields,
\* every ExitCode error has a code other than 0, and a failed status that does
\* not carry a nonzero code is classified as Signal.
C9_ExitCodeOnlyNonzero ==
    (HasStatus /\ ~GivenStatus.success)
        => /\ ~result.ok
           /\ ResultError.kind = "ExitCode" => ResultError.code # 0
           /\ ~(GivenStatus.code.some /\ GivenStatus.code.val # 0)
                 => ResultError.kind = "Signal"

\* C9, amended: with the success flag and the code as independent fields, a
\* failed status is classified as ExitCode(code) exactly when it carries a
\* numeric code, zero included, and as Signal exactly when it carries none;
\* an ExitCode error has code 0 only for a failed status whose code is 0.
C9_ExitCodeWheneverCode ==
    (HasStatus /\ ~GivenStatus.success)
        => /\ ~result.ok
           /\ ResultError.kind \in {"ExitCode", "Signal"}
           /\ ResultError.kind = "ExitCode" <=> GivenStatus.code.some
           /\ ResultError.kind = "ExitCode"
                 => ResultError.code = GivenStatus.code.val
           /\ (ResultError.kind = "ExitCode" /\ ResultError.code = 0)
                 => GivenStatus.code = Some(0)

\* C9 happens: a failed status whose code is 0
C9_Witness ==
    /\ shape = "ExitStatus"
    /\ raw = Ok([success |-> FALSE, code |-> Some(0), signal |-> None])
    /\ result = Err(ExitCode(0))

\* C10: From keeps the CommandStatusError as err and sets output to None; with
\* verify() on a captured output, a CommandError's output is None exactly when
\* it came from a spawn failure or from a CommandStatusError, and Some for
\* every ExitCode or Signal error of verify() on a captured output.
C10_OutputNoneIffSpawnOrFrom ==
    /\ converted.some
          => /\ shape \in {"ExitStatus", "OptionExitStatus", "Child"}
             /\ ~result.ok
             /\ converted.val.err = result.err
             /\ converted.val.output = None
    /\ (shape = "Output" /\ ~result.ok)
          => /\ ~converted.some
             /\ result.err.output = None <=> result.err.err.kind = "SpawnFailed"
             /\ result.err.err.kind \in {"ExitCode", "Signal"}
                   => result.err.output.some

\* C10 happens: the ExitCode error of status().verify() went through From
C10_Witness ==
    /\ shape = "ExitStatus"
    /\ result = Err(ExitCode(PANIC))
    /\ converted = Some(CommandError(ExitCode(PANIC), None))

====
